---- MODULE Spec2Model ----
(***************************************************************************)
(* Model of the "Second Brain" repository: the memories table and the      *)
(* match_memories similarity function of the SQL schema, the reinforcement *)
(* and resurfacing operations the design document builds on that table,    *)
(* and the browser's REST client (api.js, auth.js).                        *)
(*                                                                         *)
(* Numbers are fixed point.  Similarities and cosine distances are in      *)
(* hundredths (Scale = 1.0); importance is in tenths (10 = 1.0); time is   *)
(* in whole days.                                                          *)
(***************************************************************************)
EXTENDS Integers, Sequences, FiniteSets, TLC

\* ------------------------------------------------------------------------
\* Bounds
\* ------------------------------------------------------------------------
MaxMem == 2
MaxTargets == 1
MaxClock == 1
MaxCount == 2
MaxAccess == 3

\* ------------------------------------------------------------------------
\* Small input sets
\* ------------------------------------------------------------------------
\* user_id uuid values
Owners == {"A", "B"}

\* A session that bypasses row level security (table owner / service role).
ServiceRole == "service_role"

\* Session identities: auth.uid() of a logged-in owner, or a bypassing role.
Sessions == Owners \cup {ServiceRole}

\* Embeddings.  The schema fixes one dimension for every vector; the model
\* uses non-zero vectors of one small dimension whose norms are integers, so
\* every cosine is an exact number of hundredths.
Vectors == {<<1, 0>>, <<3, 4>>, <<4, 3>>}

\* query_embedding values
QueryVectors == {<<1, 0>>, <<3, 4>>}

\* match_threshold values, in hundredths (0.0 and 0.6)
Thresholds == {0, 60}

\* match_count values; a negative LIMIT is rejected by the database.
Counts == -1 .. MaxCount

\* ------------------------------------------------------------------------
\* Vector arithmetic: the pgvector operator <=> (cosine distance)
\* ------------------------------------------------------------------------
Scale == 100

RECURSIVE DotFrom(_, _, _)
DotFrom(a, b, i) ==
  IF i > Len(a) THEN 0 ELSE a[i] * b[i] + DotFrom(a, b, i + 1)

Dot(a, b) == DotFrom(a, b, 1)

Norm(a) == CHOOSE n \in 0 .. 10 : n * n = Dot(a, a)

\* a <=> b  =  1 - (a . b) / (|a| |b|)
CosineDistance(a, b) == Scale - ((Scale * Dot(a, b)) \div (Norm(a) * Norm(b)))

\* 1 - (m.embedding <=> query_embedding)
Similarity(a, b) == Scale - CosineDistance(a, b)

Min(a, b) == IF a < b THEN a ELSE b
Max(a, b) == IF a > b THEN a ELSE b

\* ------------------------------------------------------------------------
\* State
\* ------------------------------------------------------------------------
VARIABLES
  memories,   \* the memories table: sequence of rows, row i has id i
  clock,      \* now() of the database, in days
  call,       \* arguments of the pending match_memories call, or NoCall
  result,     \* rows returned by the pending match_memories call
  upd,        \* per caller: the reinforce call it is in the middle of
  applied,    \* per Memory id: history of the reinforcements that succeeded
  outcome,    \* outcome of the last reinforce step that finished
  sel,        \* the pending Resurfacing Selector evaluation, or NoSel
  storage,    \* the browser's localStorage: access_token and user_email
  reqs,       \* the api client's requests, by slot
  reloaded,   \* window.location.reload() was called in the task that just ran
  dev         \* import.meta.env.DEV of the build

NoCall == [kind |-> "none"]

\* ------------------------------------------------------------------------
\* Table memories: column defaults
\* ------------------------------------------------------------------------
DefaultImportance == 10
DefaultAccessCount == 0
DefaultSummaryCount == 0

\* The row an INSERT that names only user_id, raw_text, summary and embedding
\* produces.  now() is the transaction's start time, so both timestamp
\* defaults of one INSERT are the same instant.
\* Variant of NewRow: last_accessed_at left at the epoch instead of now().
NewRowStale(id, uid, emb, now) ==
  [ id               |-> id,
    user_id          |-> uid,
    embedding        |-> emb,
    importance       |-> DefaultImportance,
    access_count     |-> DefaultAccessCount,
    summary_count    |-> DefaultSummaryCount,
    created_at       |-> now,
    last_accessed_at |-> 0 ]

NewRow(id, uid, emb, now) ==
  [ id               |-> id,
    user_id          |-> uid,
    embedding        |-> emb,
    importance       |-> DefaultImportance,
    access_count     |-> DefaultAccessCount,
    summary_count    |-> DefaultSummaryCount,
    created_at       |-> now,
    last_accessed_at |-> now ]

\* ------------------------------------------------------------------------
\* Row level security: user_isolation_policy
\* ------------------------------------------------------------------------
\* USING (auth.uid() = user_id); a bypassing role sees every row.
RowVisible(session, row) ==
  session = ServiceRole \/ session = row.user_id

\* ------------------------------------------------------------------------
\* match_memories
\* ------------------------------------------------------------------------
\* FROM memories m WHERE m.user_id = p_user_id
\*   AND 1 - (m.embedding <=> query_embedding) > match_threshold
\* Variant of MatchWhere: the owner condition is missing.
MatchWhereAnyOwner(row, query_embedding, match_threshold, p_user_id) ==
  Similarity(row.embedding, query_embedding) > match_threshold

\* Variant of MatchWhere: >= in place of >.
MatchWhereInclusive(row, query_embedding, match_threshold, p_user_id) ==
  /\ row.user_id = p_user_id
  /\ Similarity(row.embedding, query_embedding) >= match_threshold

MatchWhere(row, query_embedding, match_threshold, p_user_id) ==
  /\ row.user_id = p_user_id
  /\ Similarity(row.embedding, query_embedding) > match_threshold

Matching(rows, session, query_embedding, match_threshold, p_user_id) ==
  { i \in DOMAIN rows :
      /\ RowVisible(session, rows[i])
      /\ MatchWhere(rows[i], query_embedding, match_threshold, p_user_id) }

\* ORDER BY m.embedding <=> query_embedding
\* The sort key is the distance alone: rows at the same distance may come out
\* in any order, so every order compatible with the key is an outcome.
\* Variant of OrderBys: ORDER BY ... DESC.
OrderBysFarthestFirst(rows, S, query_embedding) ==
  { s \in [1 .. Cardinality(S) -> S] :
      /\ \A i, j \in 1 .. Cardinality(S) : i # j => s[i] # s[j]
      /\ \A i, j \in 1 .. Cardinality(S) :
           i < j => CosineDistance(rows[s[i]].embedding, query_embedding)
                      >= CosineDistance(rows[s[j]].embedding, query_embedding) }

OrderBys(rows, S, query_embedding) ==
  { s \in [1 .. Cardinality(S) -> S] :
      /\ \A i, j \in 1 .. Cardinality(S) : i # j => s[i] # s[j]
      /\ \A i, j \in 1 .. Cardinality(S) :
           i < j => CosineDistance(rows[s[i]].embedding, query_embedding)
                      <= CosineDistance(rows[s[j]].embedding, query_embedding) }

\* LIMIT match_count
\* Variant of Limit: one row too few.
LimitOneShort(s, match_count) == SubSeq(s, 1, Min(match_count, Len(s)) - 1)

Limit(s, match_count) == SubSeq(s, 1, Min(match_count, Len(s)))

\* The SELECT list: the row's columns and the computed similarity.
Selected(row, query_embedding) ==
  [ id               |-> row.id,
    user_id          |-> row.user_id,
    importance       |-> row.importance,
    created_at       |-> row.created_at,
    last_accessed_at |-> row.last_accessed_at,
    access_count     |-> row.access_count,
    summary_count    |-> row.summary_count,
    similarity       |-> Similarity(row.embedding, query_embedding) ]

\* All result sets RETURN QUERY may produce.
MatchResults(rows, session, query_embedding, match_threshold, match_count, p_user_id) ==
  { [k \in 1 .. Len(Limit(s, match_count)) |->
        Selected(rows[Limit(s, match_count)[k]], query_embedding)] :
      s \in OrderBys(rows,
                     Matching(rows, session, query_embedding, match_threshold, p_user_id),
                     query_embedding) }

\* ------------------------------------------------------------------------
\* Reinforcement Updater: reinforce(owner_id, id, now)
\* ------------------------------------------------------------------------
\* Concurrent callers of reinforce.
Callers == {"c1", "c2"}

Idle == [pc |-> "idle"]

\* Configuration: the fixed reinforcement increment and importance_cap, both
\* in tenths.
ReinforceIncrement == 1
ImportanceCap == 12

\* The values reinforce computes from the values it read.
\* Variant of Reinforced: last_accessed_at is set to now unconditionally.
ReinforcedRegress(seen, now) ==
  [ access_count     |-> seen.access_count + 1,
    last_accessed_at |-> now,
    importance       |-> Min(seen.importance + ReinforceIncrement, ImportanceCap) ]

Reinforced(seen, now) ==
  [ access_count     |-> seen.access_count + 1,
    last_accessed_at |-> IF now > seen.last_accessed_at THEN now
                                                        ELSE seen.last_accessed_at,
    importance       |-> Min(seen.importance + ReinforceIncrement, ImportanceCap) ]

\* The fields a reinforcement reads and writes back.
Counters(row) ==
  [ access_count     |-> row.access_count,
    last_accessed_at |-> row.last_accessed_at,
    importance       |-> row.importance ]

\* The optimistic check: the record is as it was read.
\* Variant of Unchanged: the write goes ahead without the check.
UnchangedUnchecked(row, seen) == TRUE

Unchanged(row, seen) == Counters(row) = seen

\* The single write of a reinforcement: all three fields in one update.
WriteBack(row, new) ==
  [row EXCEPT !.access_count = new.access_count,
              !.last_accessed_at = new.last_accessed_at,
              !.importance = new.importance]

NoHistory == [n |-> 0, maxNow |-> -1]

\* ------------------------------------------------------------------------
\* Browser client: localStorage, the axios instance of api.js, authService
\* ------------------------------------------------------------------------
\* Request slots: at most this many api calls are alive at once.
Slots == {"r1", "r2"}

\* access_token values the server issues; each belongs to one account.
Tokens == {"t1", "t2"}

EmailOf(t) == IF t = "t1" THEN "u1@x" ELSE "u2@x"

\* A key that is not in localStorage (getItem returns null), a header or a
\* field that is not set.
Absent == "absent"

EmptyStorage == [access_token |-> Absent, user_email |-> Absent]

\* axiosRetry(api, { retries: 3, ... })
Retries == 3

\* The calls the application makes through api.
Calls == {"login", "register", "memories", "chronology"}

\* MemoryFeed ("memories") and Chronology both call api.get('/memories').
ListCalls == {"memories", "chronology"}

Method(kind) == IF kind \in ListCalls THEN "get" ELSE "post"

\* What the network can deliver for an attempt: a 2xx response, or an error
\* without response (network failure, timeout) or with a status.
Errors == {"network", "timeout", "s401", "s400", "s500"}

\* The bodies of 2xx responses: a session, a body without access_token, a
\* list of memories.
Bodies(kind) ==
  IF kind \in ListCalls
  THEN {[list |-> "memories"]}
  ELSE {[access_token |-> t, email |-> EmailOf(t)] : t \in Tokens}
         \cup {[access_token |-> Absent, email |-> Absent]}

Unused == [st |-> "unused"]

\* No Authorization header in the config.
NoHeader == [scheme |-> "none"]

\* The JavaScript value undefined.
Undefined == [undefined |-> TRUE]

\* Nothing sent yet, nothing received yet.
NoWire == [sent |-> FALSE]
Pending == [kind |-> "pending"]

\* `Bearer ${token}`
Bearer(token) == [scheme |-> "Bearer", token |-> token]

\* Request interceptor: the Authorization header of the config after it ran.
\* It sets the header when a token is stored and returns the config as it
\* came otherwise.
InjectJWT(authorization, store) ==
  IF store.access_token # Absent THEN Bearer(store.access_token)
                                 ELSE authorization

\* axios-retry: isNetworkOrIdempotentRequestError(error)
\*                || error.code === 'ECONNABORTED'
RetryCondition(method, err) ==
  \/ err = "network"
  \/ err = "s500" /\ method = "get"
  \/ err = "timeout"

\* authService.logout()
LoggedOut(store) == [store EXCEPT !.access_token = Absent, !.user_email = Absent]

\* Variant of OnResponseError: a 401 removes the token and leaves user_email.
OnResponseErrorTokenOnly(err, store) ==
  IF err = "s401" THEN [store EXCEPT !.access_token = Absent] ELSE store

\* Response interceptor, error side: the storage it leaves.
OnResponseError(err, store) ==
  IF err = "s401" THEN LoggedOut(store) ELSE store

\* Response interceptor, error side: whether it calls
\* window.location.reload().
ReloadsOn(err) == err = "s401"

\* What the caller of api.get / api.post receives for a 2xx response that
\* came after retryCount retries.  Every retry runs the whole instance again
\* inside the response chain of the attempt before it, so the success side
\* of the response interceptor (response => response.data) is applied once
\* per attempt made: to the response, then to its data, then to undefined.
Delivered(body, retryCount, isDev) ==
  IF retryCount = 0 THEN [kind |-> "value", value |-> body]
  ELSE IF retryCount = 1 /\ ~isDev THEN [kind |-> "value", value |-> Undefined]
  ELSE [kind |-> "error", error |-> "TypeError"]

\* Variant of AfterAuthPost: the catch block rethrows without logout().
AfterAuthPostNoCleanup(got, store) ==
  IF got.kind = "value" /\ got.value # Undefined
  THEN [ st |-> "resolved",
         store |-> IF got.value.access_token # Absent
                   THEN [access_token |-> got.value.access_token,
                         user_email |-> got.value.email]
                   ELSE store ]
  ELSE [ st |-> "rejected", store |-> store ]

\* authService.login / register after the await: the storage they leave and
\* whether they resolve.  A value without access_token field (undefined)
\* makes data.access_token throw inside the try block.
AfterAuthPost(got, store) ==
  IF got.kind = "value" /\ got.value # Undefined
  THEN [ st |-> "resolved",
         store |-> IF got.value.access_token # Absent
                   THEN [access_token |-> got.value.access_token,
                         user_email |-> got.value.email]
                   ELSE store ]
  ELSE [ st |-> "rejected", store |-> LoggedOut(store) ]

\* MemoryFeed / Chronology after the await: they do not touch localStorage.
AfterGet(got, store) ==
  [ st |-> IF got.kind = "value" THEN "resolved" ELSE "rejected",
    store |-> store ]

AfterCall(kind, got, store) ==
  IF kind \in ListCalls THEN AfterGet(got, store) ELSE AfterAuthPost(got, store)

\* ------------------------------------------------------------------------
\* MemoryFeed and Chronology: component state and what they render
\* ------------------------------------------------------------------------
\* No failed attempt yet.
NoError == "none"

\* useState([]), the built-in mock memories, and no component at all.
NoItems == [list |-> "none"]
MockMemories == [list |-> "mock"]
NoUi == [loading |-> FALSE, error |-> "", items |-> NoItems]

\* setError(...) texts
ErrorText(kind) ==
  IF kind = "memories" THEN "The archives could not be reached."
                       ELSE "The scrolls of time could not be unrolled."

\* Chronology.groupMemories: the list by year and month.
GroupMemories(list) == [grouped |-> list.list]

\* The component state when the fetch starts: setLoading(true) on the
\* initial state.
Fetching(kind) ==
  IF kind \in ListCalls THEN [loading |-> TRUE, error |-> "", items |-> NoItems]
                        ELSE NoUi

\* The catch block followed by finally: the error text and the mock list.
Caught(kind) ==
  [ loading |-> FALSE, error |-> ErrorText(kind),
    items |-> IF kind = "chronology" THEN GroupMemories(MockMemories)
                                     ELSE MockMemories ]

\* fetchMemories / fetchAndGroupMemories after the await: the component
\* state they leave.  groupMemories spreads its argument, so undefined makes
\* it throw inside the try block; setMemories takes any value.
Fetched(kind, got) ==
  IF kind \notin ListCalls THEN NoUi
  ELSE IF got.kind = "error" THEN Caught(kind)
  ELSE IF kind = "chronology"
       THEN IF got.value = Undefined THEN Caught(kind)
            ELSE [loading |-> FALSE, error |-> "", items |-> GroupMemories(got.value)]
  ELSE [loading |-> FALSE, error |-> "", items |-> got.value]

\* What the component renders: the loading line, the error line alone, or
\* the list.  MemoryFeed reads memories.length, which throws on undefined,
\* and shows an empty-library line for an empty list.
Rendered(kind, ui) ==
  IF ui.loading THEN [view |-> "status", items |-> NoItems]
  ELSE IF ui.error # "" THEN [view |-> "error", items |-> NoItems]
  ELSE IF kind = "memories" /\ ui.items = Undefined
       THEN [view |-> "crash", items |-> NoItems]
  ELSE IF kind = "memories" /\ ui.items = NoItems
       THEN [view |-> "empty", items |-> NoItems]
  ELSE [view |-> "list", items |-> ui.items]

\* ------------------------------------------------------------------------
\* Retention Scorer: score(importance, access_count, last_accessed_at, now)
\* ------------------------------------------------------------------------
\* Configuration: base_stability in days.
BaseStability == 1

\* exp is evaluated by its power series up to this degree.
ExpTerms == 5

RECURSIVE Pow(_, _)
Pow(b, k) == IF k = 0 THEN 1 ELSE b * Pow(b, k - 1)

RECURSIVE Fact(_)
Fact(k) == IF k = 0 THEN 1 ELSE k * Fact(k - 1)

\* exp(e / s) * s^ExpTerms * ExpTerms!, as an integer
RECURSIVE ExpSum(_, _, _)
ExpSum(e, s, k) ==
  IF k > ExpTerms THEN 0
  ELSE Pow(e, k) * Pow(s, ExpTerms - k) * (Fact(ExpTerms) \div Fact(k))
         + ExpSum(e, s, k + 1)

\* exp(-e / s) in thousandths
ExpNeg(e, s) == (1000 * Pow(s, ExpTerms) * Fact(ExpTerms)) \div ExpSum(e, s, 0)

\* retention = importance_normalized * exp(-elapsed_days / stability), in
\* thousandths
RetentionScore(importance, access_count, last_accessed_at, now) ==
  LET elapsed_days == Max(0, now - last_accessed_at)
      stability == BaseStability * (1 + access_count)
  IN  (Min(importance, ImportanceCap) * ExpNeg(elapsed_days, stability))
        \div ImportanceCap

\* ------------------------------------------------------------------------
\* Resurfacing Selector
\* ------------------------------------------------------------------------
\* Configuration: resurface_threshold in thousandths, and
\* resurface_importance_floor in tenths.
ResurfaceThreshold == 600
ResurfaceImportanceFloor == 11

NoSel == [kind |-> "none"]

\* Variant of Qualifies: the importance floor is not applied.
QualifiesNoFloor(row, now) ==
  RetentionScore(row.importance, row.access_count, row.last_accessed_at, now)
    < ResurfaceThreshold

\* A Memory qualifies when it is fading and was judged worth keeping.
Qualifies(row, now) ==
  /\ RetentionScore(row.importance, row.access_count, row.last_accessed_at, now)
       < ResurfaceThreshold
  /\ row.importance >= ResurfaceImportanceFloor

\* list(owner_id), narrowed to the qualifying Memories
Candidates(rows, owner, now) ==
  { i \in DOMAIN rows : rows[i].user_id = owner /\ Qualifies(rows[i], now) }

\* row a comes before row b: lower retention_score first, then older first
Before(a, b, now) ==
  LET ra == RetentionScore(a.importance, a.access_count, a.last_accessed_at, now)
      rb == RetentionScore(b.importance, b.access_count, b.last_accessed_at, now)
  IN  \/ ra < rb
      \/ ra = rb /\ a.created_at <= b.created_at

\* Every order of the candidates the two sort keys allow.
ResurfaceOrders(rows, S, now) ==
  { s \in [1 .. Cardinality(S) -> S] :
      /\ \A i, j \in 1 .. Cardinality(S) : i # j => s[i] # s[j]
      /\ \A i, j \in 1 .. Cardinality(S) :
           i < j => Before(rows[s[i]], rows[s[j]], now) }

\* The object returned for a selected Memory, flagged is_resurfaced.
Flagged(row, now) ==
  [ id              |-> row.id,
    user_id         |-> row.user_id,
    importance      |-> row.importance,
    retention_score |-> RetentionScore(row.importance, row.access_count,
                                       row.last_accessed_at, now),
    is_resurfaced   |-> TRUE ]

\* The N most urgently fading candidates.
Selections(rows, owner, now, n) ==
  { [k \in 1 .. Min(n, Len(s)) |-> Flagged(rows[s[k]], now)] :
      s \in ResurfaceOrders(rows, Candidates(rows, owner, now), now) }

vars == <<memories, clock, call, result, upd, applied, outcome, sel, storage, reqs,
          reloaded, dev>>

dbVars == <<memories, clock>>
queryVars == <<call, result>>
reinforceVars == <<upd, applied, outcome>>
selVars == <<sel>>
serverVars == <<memories, clock, call, result, upd, applied, outcome, sel>>
clientVars == <<storage, reqs, reloaded, dev>>

\* The empty table and caller state of the server side.
InitServer ==
  /\ memories = <<>>
  /\ clock = 0
  /\ call = NoCall
  /\ result = <<>>
  /\ upd = [c \in Callers |-> Idle]
  /\ applied = <<>>
  /\ outcome = "none"
  /\ sel = NoSel

\* A freshly loaded page with nothing in localStorage.
InitBrowser ==
  /\ storage = EmptyStorage
  /\ reqs = [r \in Slots |-> Unused]
  /\ reloaded = FALSE

\* The production build.
Init ==
  /\ InitServer
  /\ InitBrowser
  /\ dev = FALSE

\* Either build, development or production.
InitAnyBuild ==
  /\ InitServer
  /\ InitBrowser
  /\ dev \in BOOLEAN

\* INSERT INTO memories (user_id, raw_text, summary, embedding): Ingest.
Ingest(uid, emb) ==
  /\ Len(memories) < MaxMem
  /\ memories' = Append(memories, NewRow(Len(memories) + 1, uid, emb, clock))
  /\ applied' = Append(applied, NoHistory)
  /\ UNCHANGED <<clock, call, result, upd, outcome, sel, clientVars>>

\* Time passes.
Tick ==
  /\ clock < MaxClock
  /\ clock' = clock + 1
  /\ UNCHANGED <<memories, call, result, reinforceVars, sel, clientVars>>

\* SELECT * FROM match_memories(q, t, n, u) in a session.
MatchMemories(session, q, t, n, u) ==
  /\ call = NoCall
  /\ n >= 0
  /\ call' = [kind |-> "ok", session |-> session, query_embedding |-> q,
              match_threshold |-> t, match_count |-> n, p_user_id |-> u]
  /\ result' \in MatchResults(memories, session, q, t, n, u)
  /\ UNCHANGED <<dbVars, reinforceVars, sel, clientVars>>

\* A negative match_count: LIMIT raises an error and no row is returned.
MatchMemoriesError(session, q, t, n, u) ==
  /\ call = NoCall
  /\ n < 0
  /\ call' = [kind |-> "error", session |-> session, query_embedding |-> q,
              match_threshold |-> t, match_count |-> n, p_user_id |-> u]
  /\ result' = <<>>
  /\ UNCHANGED <<dbVars, reinforceVars, sel, clientVars>>

\* The caller has taken the rows (or the error) of its call.
Return ==
  /\ call # NoCall
  /\ call' = NoCall
  /\ result' = <<>>
  /\ UNCHANGED <<dbVars, reinforceVars, sel, clientVars>>

\* reinforce, first half: get(owner_id, id) fails with NotFound ...
ReinforceNotFound(c, owner, id, now) ==
  /\ upd[c] = Idle
  /\ ~(id \in DOMAIN memories /\ memories[id].user_id = owner)
  /\ outcome' = "NotFound"
  /\ UNCHANGED <<dbVars, queryVars, upd, applied, sel, clientVars>>

\* ... or reads the current access_count, importance and last_accessed_at.
ReinforceRead(c, owner, id, now) ==
  /\ upd[c] = Idle
  /\ id \in DOMAIN memories
  /\ memories[id].user_id = owner
  /\ memories[id].access_count < MaxAccess
  /\ upd' = [upd EXCEPT ![c] = [pc |-> "write", id |-> id, now |-> now,
                                seen |-> Counters(memories[id])]]
  /\ UNCHANGED <<dbVars, queryVars, applied, outcome, sel, clientVars>>

\* reinforce, second half: write back if the record is as it was read,
\* else fail with Conflict and leave the record alone.
ReinforceWrite(c) ==
  /\ upd[c].pc = "write"
  /\ LET id == upd[c].id
         now == upd[c].now
         new == Reinforced(upd[c].seen, now)
     IN  IF Unchanged(memories[id], upd[c].seen)
         THEN /\ memories' = [memories EXCEPT ![id] = WriteBack(@, new)]
              /\ applied' = [applied EXCEPT ![id] =
                               [n |-> @.n + 1, maxNow |-> Max(@.maxNow, now)]]
              /\ outcome' = "ok"
         ELSE /\ outcome' = "Conflict"
              /\ UNCHANGED <<memories, applied>>
  /\ upd' = [upd EXCEPT ![c] = Idle]
  /\ UNCHANGED <<clock, queryVars, sel, clientVars>>

\* The Resurfacing Selector evaluates one owner's whole Memory set.
Resurface(owner, now, n) ==
  /\ sel = NoSel
  /\ \E items \in Selections(memories, owner, now, n) :
       sel' = [kind |-> "done", owner |-> owner, now |-> now, n |-> n,
               items |-> items]
  /\ UNCHANGED <<dbVars, queryVars, reinforceVars, clientVars>>

\* The caller has taken the flagged objects.
ResurfaceReturn ==
  /\ sel # NoSel
  /\ sel' = NoSel
  /\ UNCHANGED <<dbVars, queryVars, reinforceVars, clientVars>>

\* An attempt goes on the wire with the config's headers; stored is the
\* access_token in localStorage at that moment.
Sent(req, store) ==
  [req EXCEPT !.st = "inflight",
              !.authorization = InjectJWT(req.authorization, store),
              !.wire = [sent |-> TRUE,
                        authorization |-> InjectJWT(req.authorization, store),
                        stored |-> store.access_token]]

\* The application calls api.get('/memories'), or authService.login /
\* register call api.post.  The auth form is disabled while a call of it is
\* under way.
Call(r, kind) ==
  /\ reqs[r].st = "unused"
  /\ kind \notin ListCalls =>
       \A q \in Slots : reqs[q].st \in {"inflight", "backoff"} => reqs[q].kind \in ListCalls
  /\ reqs' = [reqs EXCEPT ![r] =
                Sent([st |-> "new", kind |-> kind, retryCount |-> 0,
                      authorization |-> NoHeader, wire |-> NoWire, got |-> Pending,
                      failed |-> NoError, ui |-> Fetching(kind)],
                     storage)]
  /\ reloaded' = FALSE
  /\ UNCHANGED <<storage, dev, serverVars>>

\* A 2xx response arrives: the response chain and the caller's continuation
\* run.
Respond(r, body) ==
  /\ reqs[r].st = "inflight"
  /\ LET got == Delivered(body, reqs[r].retryCount, dev)
         after == AfterCall(reqs[r].kind, got, storage)
     IN  /\ reqs' = [reqs EXCEPT ![r].st = after.st, ![r].got = got,
                                  ![r].ui = Fetched(reqs[r].kind, got)]
         /\ storage' = after.store
  /\ reloaded' = FALSE
  /\ UNCHANGED <<dev, serverVars>>

\* An error arrives and axios-retry schedules another attempt.
FailRetry(r, err) ==
  /\ reqs[r].st = "inflight"
  /\ reqs[r].retryCount < Retries
  /\ RetryCondition(Method(reqs[r].kind), err)
  /\ reqs' = [reqs EXCEPT ![r].st = "backoff", ![r].retryCount = @ + 1,
                          ![r].failed = err]
  /\ reloaded' = FALSE
  /\ UNCHANGED <<storage, dev, serverVars>>

\* An error arrives and is final: the error side of the response interceptor
\* runs, then the caller's catch block.  A 401 also reloads the page, which
\* drops every other request of the page.
Fail(r, err) ==
  /\ reqs[r].st = "inflight"
  /\ ~(reqs[r].retryCount < Retries /\ RetryCondition(Method(reqs[r].kind), err))
  /\ LET got == [kind |-> "error", error |-> err]
         after == AfterCall(reqs[r].kind, got, OnResponseError(err, storage))
     IN  /\ reqs' = [q \in Slots |->
                       IF q = r THEN [reqs[r] EXCEPT !.st = after.st, !.got = got,
                                                     !.ui = Fetched(reqs[r].kind, got)]
                       ELSE IF ReloadsOn(err) THEN Unused
                       ELSE reqs[q]]
         /\ storage' = after.store
  /\ reloaded' = ReloadsOn(err)
  /\ UNCHANGED <<dev, serverVars>>

\* The retry delay is over: axios-retry passes the failed attempt's config
\* to the instance again, and the request interceptor runs on it.
RetryFire(r) ==
  /\ reqs[r].st = "backoff"
  /\ reqs' = [reqs EXCEPT ![r] = Sent(reqs[r], storage)]
  /\ reloaded' = FALSE
  /\ UNCHANGED <<storage, dev, serverVars>>

\* The user closes the archive: App.handleLogout calls authService.logout.
Logout ==
  /\ storage' = LoggedOut(storage)
  /\ reloaded' = FALSE
  /\ UNCHANGED <<reqs, dev, serverVars>>

\* A finished call is forgotten; its slot can serve another call.
Forget(r) ==
  /\ reqs[r].st \in {"resolved", "rejected"}
  /\ reqs' = [reqs EXCEPT ![r] = Unused]
  /\ reloaded' = FALSE
  /\ UNCHANGED <<storage, dev, serverVars>>

CallStep == \E r \in Slots, kind \in Calls : Call(r, kind)
RespondStep ==
  \E r \in Slots :
    /\ reqs[r].st = "inflight"
    /\ \E body \in Bodies(reqs[r].kind) : Respond(r, body)
FailRetryStep == \E r \in Slots, err \in Errors : FailRetry(r, err)
FailStep == \E r \in Slots, err \in Errors : Fail(r, err)
RetryFireStep == \E r \in Slots : RetryFire(r)
ForgetStep == \E r \in Slots : Forget(r)

\* The browser client against an arbitrary network and server.
NextClient ==
  \/ CallStep
  \/ RespondStep
  \/ FailRetryStep
  \/ FailStep
  \/ RetryFireStep
  \/ Logout
  \/ ForgetStep

SpecClient == InitAnyBuild /\ [][NextClient]_vars

IngestStep == \E uid \in Owners, emb \in Vectors : Ingest(uid, emb)

MatchStep ==
  \E session \in Sessions, q \in QueryVectors, t \in Thresholds, n \in Counts, u \in Owners :
    MatchMemories(session, q, t, n, u)

MatchErrorStep ==
  \E session \in Sessions, q \in QueryVectors, t \in Thresholds, n \in Counts, u \in Owners :
    MatchMemoriesError(session, q, t, n, u)

\* The store's similarity query and its callers.
Next ==
  \/ IngestStep
  \/ Tick
  \/ MatchStep
  \/ MatchErrorStep
  \/ Return

Spec == Init /\ [][Next]_vars

\* Reinforcement and resurfacing do not look at embeddings: one embedding
\* suffices.
IngestPlain ==
  /\ Len(memories) < MaxTargets
  /\ \E uid \in Owners : Ingest(uid, <<1, 0>>)

ReinforceNotFoundStep ==
  \E c \in Callers, owner \in Owners, id \in 1 .. MaxTargets, now \in 0 .. MaxClock :
    ReinforceNotFound(c, owner, id, now)

ReinforceReadStep ==
  \E c \in Callers, owner \in Owners, id \in 1 .. MaxTargets, now \in 0 .. MaxClock :
    ReinforceRead(c, owner, id, now)

ReinforceWriteStep == \E c \in Callers : ReinforceWrite(c)

\* The store under concurrent reinforcement.
NextReinforce ==
  \/ IngestPlain
  \/ Tick
  \/ ReinforceNotFoundStep
  \/ ReinforceReadStep
  \/ ReinforceWriteStep

SpecReinforce == Init /\ [][NextReinforce]_vars

\* ------------------------------------------------------------------------
\* Properties of match_memories
\* ------------------------------------------------------------------------
\* Ids of the rows now in the table that WHERE would accept for the pending
\* call, whoever the session is.
QualifyingNow ==
  { i \in DOMAIN memories :
      /\ memories[i].user_id = call.p_user_id
      /\ Similarity(memories[i].embedding, call.query_embedding) > call.match_threshold }

ResultIds == { result[k].id : k \in DOMAIN result }

\* C1: a match_memories call for owner A returns only rows whose user_id is
\* A, whatever the table holds and whichever session makes the call.
C1_OwnerIsolation ==
  call.kind = "ok" =>
    \A k \in DOMAIN result : result[k].user_id = call.p_user_id

\* A row-level-security bypassing session asked for one owner's matches while
\* another owner's row was just as similar, and got rows back.
C1_Witness ==
  /\ call.kind = "ok"
  /\ call.session = ServiceRole
  /\ Len(result) >= 1
  /\ \E i \in DOMAIN memories :
       /\ memories[i].user_id # call.p_user_id
       /\ Similarity(memories[i].embedding, call.query_embedding) > call.match_threshold

\* C2: every returned row has similarity strictly above match_threshold and
\* at most match_count rows are returned.
C2_AboveThresholdAtMostCount ==
  call.kind = "ok" =>
    /\ \A k \in DOMAIN result : result[k].similarity > call.match_threshold
    /\ Len(result) <= call.match_count

\* The limit was reached while a row of the owner sat exactly on the
\* threshold and was left out.
C2_Witness ==
  /\ call.kind = "ok"
  /\ Len(result) >= 1
  /\ Len(result) = call.match_count
  /\ \E i \in DOMAIN memories :
       /\ memories[i].user_id = call.p_user_id
       /\ Similarity(memories[i].embedding, call.query_embedding) = call.match_threshold
       /\ i \notin ResultIds

\* C3 as stated: the result is ordered by similarity descending and rows of
\* equal similarity are ordered by created_at descending.
C3_TiesByCreatedAtDescending ==
  call.kind = "ok" =>
    \A j, k \in DOMAIN result :
      j < k =>
        \/ result[j].similarity > result[k].similarity
        \/ /\ result[j].similarity = result[k].similarity
           /\ result[j].created_at >= result[k].created_at

\* C3 as amended: the result is ordered by similarity descending; nothing is
\* promised about the order of rows of equal similarity.
C3_SimilarityDescending ==
  call.kind = "ok" =>
    \A j, k \in DOMAIN result :
      j < k => result[j].similarity >= result[k].similarity

\* Two rows of different similarity were returned.
C3_Witness ==
  /\ call.kind = "ok"
  /\ Len(result) = 2
  /\ result[1].similarity > result[2].similarity

C5_IngestDefaults ==
  [][ Len(memories') > Len(memories) =>
        LET row == memories'[Len(memories')]
        IN  /\ row.importance = 10
            /\ row.access_count = 0
            /\ row.summary_count = 0
            /\ row.created_at = clock
            /\ row.last_accessed_at = row.created_at
            /\ row.last_accessed_at >= row.created_at
    ]_vars

\* A row was inserted after time had passed.
C5_Witness ==
  \E i \in DOMAIN memories :
    /\ memories[i].created_at >= 1
    /\ memories[i].access_count = 0

\* C6: no step lowers access_count, importance or last_accessed_at of a
\* Memory; a reinforcement that succeeds raises access_count by exactly 1;
\* importance never exceeds importance_cap.
C6_ReinforceMonotone ==
  [][ \A id \in DOMAIN memories :
        /\ memories'[id].access_count >= memories[id].access_count
        /\ memories'[id].importance >= memories[id].importance
        /\ memories'[id].last_accessed_at >= memories[id].last_accessed_at
        /\ memories'[id].importance <= ImportanceCap
        /\ applied'[id].n # applied[id].n =>
             memories'[id].access_count = memories[id].access_count + 1
    ]_vars

\* A Memory was reinforced, always with a now earlier than its
\* last_accessed_at, and has reached the importance cap.
C6_Witness ==
  \E id \in DOMAIN memories :
    /\ applied[id].n >= 2
    /\ applied[id].maxNow < memories[id].last_accessed_at
    /\ memories[id].importance = ImportanceCap

\* C7: under every interleaving of reinforce calls each Memory shows exactly
\* the reinforcements that succeeded, all three fields together: access_count
\* is the initial value plus the number of successes, importance has grown
\* by as many increments (up to the cap), and last_accessed_at is the latest
\* of created_at and the successful calls' now.
C7_NoLostOrPartialUpdate ==
  \A id \in DOMAIN memories :
    /\ memories[id].access_count = 0 + applied[id].n
    /\ memories[id].importance = Min(10 + applied[id].n * ReinforceIncrement, ImportanceCap)
    /\ memories[id].last_accessed_at = Max(memories[id].created_at, applied[id].maxNow)

\* A reinforcement failed with Conflict on a Memory another caller had just
\* reinforced, while a third read of that Memory is still pending.
C7_Witness ==
  /\ outcome = "Conflict"
  /\ \E id \in DOMAIN memories : applied[id].n >= 1
  /\ \E c \in Callers : upd[c].pc = "write"

\* One caller reinforcing, so that importance and access_count vary.
ReinforceNotFoundOne ==
  \E owner \in Owners, id \in 1 .. MaxTargets, now \in 0 .. MaxClock :
    ReinforceNotFound("c1", owner, id, now)

ReinforceReadOne ==
  \E owner \in Owners, id \in 1 .. MaxTargets, now \in 0 .. MaxClock :
    ReinforceRead("c1", owner, id, now)

ReinforceWriteOne == ReinforceWrite("c1")

ResurfaceStep ==
  \E owner \in Owners, now \in 0 .. MaxClock, n \in 0 .. MaxCount :
    Resurface(owner, now, n)

\* The store under reinforcement and resurfacing evaluation.
NextResurface ==
  \/ IngestPlain
  \/ Tick
  \/ ReinforceNotFoundOne
  \/ ReinforceReadOne
  \/ ReinforceWriteOne
  \/ ResurfaceStep
  \/ ResurfaceReturn

SpecResurface == Init /\ [][NextResurface]_vars

\* ------------------------------------------------------------------------
\* Properties of the Resurfacing Selector
\* ------------------------------------------------------------------------
\* C8: an evaluation flags only Memories of the owner whose importance is at
\* least resurface_importance_floor, and changes no persisted Memory field.
C8_FloorAndReadOnly ==
  [][ (sel = NoSel /\ sel'.kind = "done") =>
        /\ \A k \in DOMAIN sel'.items :
             /\ sel'.items[k].is_resurfaced
             /\ sel'.items[k].id \in DOMAIN memories
             /\ memories[sel'.items[k].id].importance >= ResurfaceImportanceFloor
             /\ memories[sel'.items[k].id].user_id = sel'.owner
        /\ memories' = memories
    ]_vars

\* An evaluation with room for a Memory passed over a fading Memory of the
\* owner because its importance is below the floor.
C8_Witness ==
  /\ sel.kind = "done"
  /\ sel.n >= 1
  /\ Len(sel.items) < sel.n
  /\ \E i \in DOMAIN memories :
       /\ memories[i].user_id = sel.owner
       /\ memories[i].importance < ResurfaceImportanceFloor
       /\ RetentionScore(memories[i].importance, memories[i].access_count,
                         memories[i].last_accessed_at, sel.now) < ResurfaceThreshold

\* ------------------------------------------------------------------------
\* Properties of the browser client
\* ------------------------------------------------------------------------
AuthCalls == {"login", "register"}

\* C9: when authService.login or authService.register rejects, neither
\* access_token nor user_email is in localStorage as the error reaches the
\* caller, whatever was stored before.
C9_NoPartialSession ==
  [][ \A r \in Slots :
        ( /\ reqs[r].st = "inflight"
          /\ reqs[r].kind \in AuthCalls
          /\ reqs'[r].st = "rejected" )
        => /\ storage'.access_token = Absent
           /\ storage'.user_email = Absent
    ]_vars

\* A login or register call was made while a session was stored, failed for
\* a reason other than a 401, and left nothing in localStorage.
C9_Witness ==
  \E r \in Slots :
    /\ reqs[r].st = "rejected"
    /\ reqs[r].kind \in AuthCalls
    /\ reqs[r].wire.stored # Absent
    /\ reqs[r].got.kind = "error"
    /\ reqs[r].got.error # "s401"
    /\ storage = EmptyStorage

\* C10: every attempt on the wire, retries included, carries Authorization:
\* Bearer <the access_token stored when it was sent>, and no Authorization
\* header when no access_token was stored then.
C10_CurrentTokenOnEveryAttempt ==
  \A r \in Slots :
    (reqs[r].st # "unused" /\ reqs[r].wire.sent) =>
      reqs[r].wire.authorization =
        IF reqs[r].wire.stored = Absent THEN NoHeader
                                        ELSE Bearer(reqs[r].wire.stored)

\* C11: when a response with status 401 arrives, access_token and
\* user_email are both removed from localStorage, the page is reloaded and
\* the caller's promise rejects with that error; when any other error
\* reaches the response interceptor it calls no reload, the caller's promise
\* rejects with that same error, and localStorage is left as it was (for a
\* caller that does not itself touch localStorage, the GET of the lists).
C11_Global401Handling ==
  [][ \A r \in Slots :
        ( /\ reqs[r].st = "inflight"
          /\ reqs'[r].st # "unused"
          /\ reqs'[r].got.kind = "error" )
        => /\ reqs'[r].st = "rejected"
           /\ IF reqs'[r].got.error = "s401"
              THEN /\ storage'.access_token = Absent
                   /\ storage'.user_email = Absent
                   /\ reloaded'
              ELSE /\ ~reloaded'
                   /\ reqs[r].kind \notin AuthCalls => storage' = storage
    ]_vars

\* The GET of the memories was sent with a session stored, was answered
\* with 401, and the session is gone and the page reloaded.
C11_Witness ==
  /\ reloaded
  /\ storage = EmptyStorage
  /\ \E r \in Slots :
       /\ reqs[r].st = "rejected"
       /\ reqs[r].kind \notin AuthCalls
       /\ reqs[r].wire.stored # Absent
       /\ reqs[r].got.kind = "error"
       /\ reqs[r].got.error = "s401"

\* A request is attempted at most 4 times.
AtMostFourAttempts ==
  \A r \in Slots : reqs[r].st # "unused" => reqs[r].retryCount + 1 <= 4

\* A retry follows only a network error, a timeout, or an error of an
\* idempotent request.
RetryOnlyWhenRetryable ==
  \A r \in Slots :
    (reqs[r].st # "unused" /\ reqs[r].retryCount >= 1) =>
      \/ reqs[r].failed \in {"network", "timeout"}
      \/ reqs[r].failed = "s500" /\ Method(reqs[r].kind) = "get"

\* C12: a request is attempted at most 4 times, a retry happens only after
\* a network error, an idempotent-request error or a timeout, and a request
\* that resolves resolves with the data of the response.
C12_BoundedRetryThenData ==
  /\ AtMostFourAttempts
  /\ RetryOnlyWhenRetryable
  /\ \A r \in Slots :
       reqs[r].st = "resolved" =>
         /\ reqs[r].got.kind = "value"
         /\ reqs[r].got.value \in Bodies(reqs[r].kind)

\* C13: once the GET of the memories has failed and loading has ended,
\* MemoryFeed and Chronology show their built-in mock memories (grouped, for
\* Chronology).
C13_MockFallbackShown ==
  \A r \in Slots :
    ( /\ reqs[r].st = "rejected"
      /\ reqs[r].kind \in ListCalls
      /\ reqs[r].got.kind = "error" )
    => /\ ~reqs[r].ui.loading
       /\ Rendered(reqs[r].kind, reqs[r].ui).view = "list"
       /\ Rendered(reqs[r].kind, reqs[r].ui).items =
            IF reqs[r].kind = "chronology" THEN GroupMemories(MockMemories)
                                           ELSE MockMemories

TypeOK ==
  /\ Len(memories) <= MaxMem
  /\ clock \in 0 .. MaxClock
  /\ storage.access_token \in Tokens \cup {Absent}
  /\ \A r \in Slots : reqs[r].st # "unused" => reqs[r].retryCount \in 0 .. Retries

====
